---- MODULE Spec2Model ----
(***************************************************************************)
(* The training-run orchestration of src/train.py: main's epoch loop,      *)
(* train()'s batch loop, validate(), get_valid_stats() and the calls they  *)
(* make into the Trainer, the metrics aggregator, checkpoint_utils and     *)
(* torch.distributed.                                                      *)
(*                                                                         *)
(* Every worker (rank) runs main() in a process of its own, so each piece  *)
(* of process state is a function of the rank.  The checkpoint directory   *)
(* and the barrier are the only state the workers share.                   *)
(*                                                                         *)
(* An AUROC in [0, 1] is an integer level 0..AurocLevels.  validate() is   *)
(* declared to return List[Optional[float]] and main reads element 0 of    *)
(* it: the model carries the score that element holds.                     *)
(***************************************************************************)
EXTENDS Integers, Sequences, FiniteSets, TLC

\* Bounds of the model.
MaxEpoch == 3          \* largest --max_epoch tried
MaxSaveInterval == 2   \* largest --save_interval tried
MaxLogInterval == 2    \* largest --log_interval tried
MaxBatches == 2        \* longest trainer.iterator tried
MaxPasses == 3         \* train() calls followed per process
AurocLevels == 2       \* AUROC levels 0..AurocLevels
MaxWorkers == 2        \* largest --distributed_world_size tried
MaxDistPasses == 2     \* train() calls followed per process in a run of several workers
ValidBatches == 1      \* batches of trainer.valid_iterator

Auroc == 0..AurocLevels

\* A local name of train() that no assignment has bound yet.
Unbound == -1
\* get_valid_stats has no attribute "best" yet (hasattr is False).
NoAttr == -1
\* The skip sentinel of train_step (None) and a log-output mapping.
None == "None"
LogOutput == "log_output"

VARIABLES
    args,         \* the parsed command line (argparse.Namespace), fixed for a run
    iter_len,     \* rank -> len(trainer.iterator), the local batch source
    scores,       \* the AUROC levels the validation subset can yield in this run
    pass_cap,     \* the train() calls followed per process in this run
    pc,           \* rank -> the place of the worker's process in main/train
    epoch_idx,    \* rank -> main's epoch_idx
    valid_losses, \* rank -> main's valid_losses (the value train() returned)
    step_i,       \* rank -> train()'s count of batches taken from progress
    log_output,   \* rank -> train()'s log_output
    num_updates,  \* rank -> train()'s local num_updates
    valid_loss,   \* rank -> train()'s local valid_loss
    trainer,      \* rank -> the Trainer's counters
    best,         \* rank -> get_valid_stats.best (a function attribute)
    metrics,      \* rank -> the aggregation contexts' accumulators
    progress,     \* rank -> train()'s progress reporter
    ckpt,         \* the checkpoint directory: epoch tag -> snapshot
    save_best,    \* rank -> checkpoint_utils' running best score
    arrived,      \* rank -> barrier() calls entered
    hist          \* rank -> what has happened so far (history only, never read by the program)

vars == <<args, iter_len, scores, pass_cap, pc, epoch_idx, valid_losses, step_i, log_output,
          num_updates, valid_loss, trainer, best, metrics, progress, ckpt,
          save_best, arrived, hist>>

Ranks == 0..(args.world_size - 1)

\* distributed_utils.is_master(args): the rank-0 worker.
is_master(w) == w = 0

\* torch.distributed.is_initialized(): call_main sets the process group up
\* for runs of more than one worker.
is_initialized == args.world_size > 1

NoCheckpoint == [epoch |-> 0, num_updates |-> 0, best_score |-> 0]

\* metrics.reset() (line 279): no accumulated value, no active context.
NoMetrics == [train |-> 0, train_inner |-> 0, valid |-> 0, active |-> {}]

\* train()'s progress before its first call: no reporter yet.
NoProgress == [epoch |-> 0, wandb_project |-> None, wandb_entity |-> None]

InitHist ==
    [passes |-> 0,            \* train() calls begun
     epochs_trained |-> <<>>, \* the epoch argument of each train() call
     lr_epochs |-> <<>>,      \* the epoch argument of each lr_step call
     lr_values |-> <<>>,      \* whether each lr_step call got the latest validation's score
     validates |-> 0,         \* validate() calls of the current train() call
     saves |-> 0,             \* save_checkpoint calls of the current train() call
     step_after_validate |-> FALSE, \* a train_step followed a validate() in this call
     last_valid |-> Unbound,  \* the score of the latest validate() of this call
     ok_steps |-> 0,          \* train_step calls that did not skip, in all
     barrier_since_validate |-> FALSE, \* a barrier was passed since the latest validate()
     inner_logs |-> <<>>,     \* the step of every "train_inner" record
     pass_ok |-> 0,           \* train_step calls of the current train() call that did not skip
     train_print |-> Unbound, \* the "train" count printed at the end of the latest train() call
     reporters |-> {},        \* the progress reporters train() and validate() have created
     console |-> 0,           \* records the process wrote to its console
     dashboard |-> 0,         \* records the process sent to the dashboard
     verified |-> 0,          \* verify_checkpoint_directory calls
     seen |-> {},             \* the AUROC levels get_valid_stats has been given
     restarts |-> 0,          \* restarts of the process
     loaded |-> NoCheckpoint] \* the snapshot the process was restarted from

\* The state of a process as main() starts (lines 278-283), for a run with
\* arguments a, batch sources of length n, validation scores in sc and
\* cap train() calls followed.
InitWith(a, n, sc, cap) ==
    /\ args = a
    /\ scores = sc
    /\ pass_cap = cap
    /\ iter_len = [w \in 0..(a.world_size - 1) |-> n]
    /\ pc = [w \in 0..(a.world_size - 1) |-> "verify"]
    /\ epoch_idx = [w \in 0..(a.world_size - 1) |-> 0]
    /\ valid_losses = [w \in 0..(a.world_size - 1) |-> Unbound]
    /\ step_i = [w \in 0..(a.world_size - 1) |-> 0]
    /\ log_output = [w \in 0..(a.world_size - 1) |-> None]
    /\ num_updates = [w \in 0..(a.world_size - 1) |-> 0]
    /\ valid_loss = [w \in 0..(a.world_size - 1) |-> Unbound]
    /\ trainer = [w \in 0..(a.world_size - 1) |->
                    [num_updates |-> 0, epoch |-> 0, lr_epoch |-> 0, lr_loss |-> Unbound]]
    /\ best = [w \in 0..(a.world_size - 1) |-> NoAttr]
    /\ metrics = [w \in 0..(a.world_size - 1) |-> NoMetrics]
    /\ progress = [w \in 0..(a.world_size - 1) |-> NoProgress]
    /\ ckpt = [e \in 1..MaxEpoch |-> NoCheckpoint]
    /\ save_best = [w \in 0..(a.world_size - 1) |-> 0]
    /\ arrived = [w \in 0..(a.world_size - 1) |-> 0]
    /\ hist = [w \in 0..(a.world_size - 1) |-> InitHist]

----------------------------------------------------------------------------
(* The collaborators train.py calls: Trainer, metrics, checkpoint_utils.   *)

\* Trainer.train_step: a step that is not skipped applies one update.
train_step(t, out) ==
    IF out = LogOutput THEN [t EXCEPT !.num_updates = @ + 1] ELSE t

\* Trainer.begin_epoch(epoch).
begin_epoch(t, epoch) == [t EXCEPT !.epoch = epoch]

\* Trainer.lr_step(epoch, val_loss): the schedule sees the epoch and the score.
lr_step(t, epoch, loss) == [t EXCEPT !.lr_epoch = epoch, !.lr_loss = loss]

\* metrics.aggregate(name, new_root) on entry: the context becomes active; a
\* new root starts empty and suspends the enclosing contexts.
aggregate_enter(m, name, new_root) ==
    IF new_root
    THEN [m EXCEPT ![name] = 0, !.active = {name}]
    ELSE [m EXCEPT !.active = @ \cup {name}]

\* metrics.aggregate on exit: the contexts active before the entry are
\* active again; the accumulated values stay.
aggregate_exit(m, before) == [m EXCEPT !.active = before]

\* metrics.log_scalar, k times: every active context accumulates.
log_scalar(m, k) ==
    [m EXCEPT !.train = IF "train" \in m.active THEN @ + k ELSE @,
              !.train_inner = IF "train_inner" \in m.active THEN @ + k ELSE @,
              !.valid = IF "valid" \in m.active THEN @ + k ELSE @]

\* metrics.log_scalar from inside train_step, with "train" (the decorator of
\* train) and "train_inner" both active: a step that is not skipped is
\* accumulated in both.
log_train_step(m, out) ==
    IF out = LogOutput
    THEN aggregate_exit(log_scalar(aggregate_enter(m, "train_inner", FALSE), 1),
                        m.active)
    ELSE m

\* metrics.reset_meters(name).
reset_meters(m, name) == [m EXCEPT ![name] = 0]

\* checkpoint_utils.save_checkpoint keeps a running best score.
running_best(prev, score) == IF score > prev THEN score ELSE prev

\* checkpoint_utils.save_checkpoint(args, trainer, epoch, valid_loss): the
\* master writes the snapshot under the epoch's tag, in the epochs the
\* interval divides.
save_checkpoint(dir, w, epoch, t, best_score) ==
    IF is_master(w) /\ epoch % args.save_interval = 0 /\ epoch \in DOMAIN dir
    THEN [dir EXCEPT ![epoch] = [epoch |-> epoch,
                                 num_updates |-> t.num_updates,
                                 best_score |-> best_score]]
    ELSE dir

----------------------------------------------------------------------------
(* train.py                                                                *)

\* get_valid_stats, lines 456-459: the baseline the new AUROC is compared to.
prev_best(b) == IF b = NoAttr THEN 0 ELSE b

\* best_function taken to be min.
best_function_min(auroc, prev) == IF prev < auroc THEN prev ELSE auroc

\* get_valid_stats, lines 460-463: best_function = max.
best_function(auroc, prev) == IF prev > auroc THEN prev ELSE auroc

\* get_valid_stats: the new value of get_valid_stats.best, also stats["best_auroc"].
get_valid_stats(b, auroc) == best_function(auroc, prev_best(b))

\* The test of line 364 left out: every step is taken as logged.
skipped_never(out) == FALSE

\* train, line 364: the step was skipped (OOM, overflow, ...).
skipped(out) == out = None

\* Line 366 left out: num_updates keeps the value read at line 356.
read_num_updates_stale(w) == num_updates[w]

\* train, line 366: num_updates is read again from the trainer.
read_num_updates(w) == trainer[w].num_updates

\* A record after every step, whatever the interval.
log_due_always(n) == TRUE

\* train, line 367: a "train_inner" record is due.
log_due(n) == n % args.log_interval = 0

\* The reset of line 373 given the name of the epoch's context.
reset_inner_wrong(m) == reset_meters(m, "train")

\* train, line 373: the mid-epoch meters are reset after a record.
reset_inner(m) == reset_meters(m, "train_inner")

\* validate without a root of its own.
new_root_off == FALSE

\* validate, line 431: metrics.aggregate(new_root=True).
new_root == TRUE

\* validate, lines 431-433: every valid_step logs under the aggregation
\* context of validate, which is left afterwards.
validate_metrics(m) ==
    aggregate_exit(log_scalar(aggregate_enter(m, "valid", new_root), ValidBatches),
                   m.active)

\* progress_bar.progress_bar(..., wandb_project, wandb_entity): the
\* reporter keeps the dashboard settings it was given.
progress_bar(epoch, project, entity) ==
    [epoch |-> epoch, wandb_project |-> project, wandb_entity |-> entity]

\* progress.log / progress.print: a record goes to the console, and to the
\* dashboard when the reporter has a project; h is the process's history.
progress_emit(h, p) ==
    [h EXCEPT !.console = @ + 1,
              !.dashboard = IF p.wandb_project # None THEN @ + 1 ELSE @]

\* train()'s reporter with the dashboard settings handed to every rank.
train_progress_all(w, epoch) ==
    progress_bar(epoch, args.wandb_project, args.wandb_entity)

\* train, lines 330-351: the reporter train() creates.
train_progress(w, epoch) ==
    progress_bar(epoch,
                 IF is_master(w) THEN args.wandb_project ELSE None,
                 IF is_master(w) THEN args.wandb_entity ELSE None)

\* validate, lines 408-429: the reporter validate() creates.
valid_progress(w, epoch) ==
    progress_bar(epoch,
                 IF is_master(w) THEN args.wandb_project ELSE None,
                 IF is_master(w) THEN args.wandb_entity ELSE None)

\* main, lines 279-286: the master verifies the checkpoint directory, which
\* may fail; the other ranks go on at once.
VerifyCheckpointDirectory(w) ==
    /\ pc[w] = "verify"
    /\ \E ok \in BOOLEAN :
        /\ pc' = [pc EXCEPT ![w] =
                    IF is_master(w) /\ ~ok THEN "failed" ELSE "breakpoint"]
        /\ hist' = [hist EXCEPT ![w].verified =
                    IF is_master(w) THEN @ + 1 ELSE @]
    /\ UNCHANGED <<args, progress, iter_len, scores, pass_cap, epoch_idx, valid_losses, step_i, log_output,
                   num_updates, valid_loss, trainer, best, metrics, ckpt,
                   save_best, arrived>>

\* main, lines 288-315: model, dataset and trainer are built, then
\* breakpoint() stops in the debugger, which is left by "continue" or by
\* "quit" (BdbQuit ends the process); then epoch_idx = 1.
Breakpoint(w) ==
    /\ pc[w] = "breakpoint"
    /\ \E cmd \in {"continue", "quit"} :
        /\ pc' = [pc EXCEPT ![w] = IF cmd = "continue" THEN "while" ELSE "quit"]
        /\ epoch_idx' = [epoch_idx EXCEPT ![w] = IF cmd = "continue" THEN 1 ELSE @]
    /\ UNCHANGED <<args, progress, iter_len, scores, pass_cap, valid_losses, step_i, log_output,
                   num_updates, valid_loss, trainer, best, metrics, ckpt,
                   save_best, arrived, hist>>

\* main, line 316 (and 322-323 when the loop is left).
LoopTest(w) ==
    /\ pc[w] = "while"
    /\ epoch_idx[w] <= args.max_epoch => hist[w].passes < pass_cap
    /\ pc' = [pc EXCEPT ![w] =
                IF epoch_idx[w] <= args.max_epoch THEN "train" ELSE "done"]
    /\ UNCHANGED <<args, progress, iter_len, scores, pass_cap, epoch_idx, valid_losses, step_i, log_output,
                   num_updates, valid_loss, trainer, best, metrics, ckpt,
                   save_best, arrived, hist>>

\* main, line 318 and train, lines 325-357: a new call of train(), with
\* no local bound but num_updates.
TrainBegin(w) ==
    /\ pc[w] = "train"
    /\ trainer' = [trainer EXCEPT ![w] = begin_epoch(@, epoch_idx[w])]
    /\ num_updates' = [num_updates EXCEPT ![w] = trainer[w].num_updates]
    /\ step_i' = [step_i EXCEPT ![w] = 0]
    /\ log_output' = [log_output EXCEPT ![w] = None]
    /\ valid_loss' = [valid_loss EXCEPT ![w] = Unbound]
    /\ metrics' = [metrics EXCEPT ![w] = aggregate_enter(@, "train", FALSE)]
    /\ progress' = [progress EXCEPT ![w] = train_progress(w, epoch_idx[w])]
    /\ hist' = [hist EXCEPT ![w].passes = @ + 1,
                            ![w].reporters = @ \cup {train_progress(w, epoch_idx[w])},
                            ![w].epochs_trained = Append(@, epoch_idx[w]),
                            ![w].pass_ok = 0,
                            ![w].train_print = Unbound,
                            ![w].validates = 0,
                            ![w].saves = 0,
                            ![w].step_after_validate = FALSE,
                            ![w].last_valid = Unbound]
    /\ pc' = [pc EXCEPT ![w] = "for"]
    /\ UNCHANGED <<args, iter_len, scores, pass_cap, epoch_idx, valid_losses, best,
                   ckpt, save_best, arrived>>

\* train, line 358: the next batch, or the end of the iterator.
ForNext(w) ==
    /\ pc[w] = "for"
    /\ step_i' = [step_i EXCEPT ![w] = IF @ < iter_len[w] THEN @ + 1 ELSE @]
    /\ pc' = [pc EXCEPT ![w] =
                IF step_i[w] < iter_len[w] THEN "train_step" ELSE "epoch_end"]
    /\ UNCHANGED <<args, progress, iter_len, scores, pass_cap, epoch_idx, valid_losses, log_output,
                   num_updates, valid_loss, trainer, best, metrics, ckpt,
                   save_best, arrived, hist>>

\* train, lines 359-362: trainer.train_step inside aggregate("train_inner");
\* it returns a log output or the skip sentinel.
TrainStep(w) ==
    /\ pc[w] = "train_step"
    /\ \E out \in {None, LogOutput} :
        /\ log_output' = [log_output EXCEPT ![w] = out]
        /\ trainer' = [trainer EXCEPT ![w] = train_step(@, out)]
        /\ metrics' = [metrics EXCEPT ![w] = log_train_step(@, out)]
        /\ hist' = [hist EXCEPT ![w].ok_steps = IF out = LogOutput THEN @ + 1 ELSE @,
                                ![w].pass_ok = IF out = LogOutput THEN @ + 1 ELSE @,
                                ![w].step_after_validate =
                                    @ \/ hist[w].validates > 0]
    /\ pc' = [pc EXCEPT ![w] = "after_step"]
    /\ UNCHANGED <<args, progress, iter_len, scores, pass_cap, epoch_idx, valid_losses, step_i,
                   num_updates, valid_loss, best, ckpt, save_best, arrived>>

\* train, lines 364-373: a skipped step goes on to the next batch; any
\* other reads num_updates and, at a log interval, logs and resets
\* "train_inner".
LogInner(w) ==
    /\ pc[w] = "after_step"
    /\ IF skipped(log_output[w])
       THEN /\ pc' = [pc EXCEPT ![w] = "for"]
            /\ UNCHANGED <<num_updates, metrics, hist>>
       ELSE /\ num_updates' = [num_updates EXCEPT ![w] = read_num_updates(w)]
            /\ IF log_due(num_updates'[w])
               THEN /\ hist' = [hist EXCEPT ![w] = progress_emit(
                                  [@ EXCEPT !.inner_logs =
                                      Append(@, [step |-> num_updates'[w],
                                                 n |-> metrics[w].train_inner])],
                                  progress[w])]
                    /\ metrics' = [metrics EXCEPT ![w] = reset_inner(@)]
               ELSE UNCHANGED <<metrics, hist>>
            /\ pc' = [pc EXCEPT ![w] = "validate"]
    /\ UNCHANGED <<args, progress, iter_len, scores, pass_cap, epoch_idx, valid_losses, step_i, log_output,
                   valid_loss, trainer, best, ckpt, save_best, arrived>>

\* train, lines 375-377 and validate, lines 398-447: the validation set is
\* evaluated under a fresh aggregation root, get_valid_stats updates the
\* best AUROC, and the AUROC is returned.
Validate(w) ==
    /\ pc[w] = "validate"
    /\ \E auroc \in scores :
        /\ best' = [best EXCEPT ![w] = get_valid_stats(@, auroc)]
        /\ valid_loss' = [valid_loss EXCEPT ![w] = auroc]
        /\ metrics' = [metrics EXCEPT ![w] = validate_metrics(@)]
        /\ hist' = [hist EXCEPT ![w] = progress_emit(
                        [@ EXCEPT !.validates = @ + 1,
                                  !.last_valid = auroc,
                                  !.seen = @ \cup {auroc},
                                  !.barrier_since_validate = FALSE,
                                  !.reporters = @ \cup {valid_progress(w, epoch_idx[w])}],
                        valid_progress(w, epoch_idx[w]))]
    /\ pc' = [pc EXCEPT ![w] = "save_checkpoint"]
    /\ UNCHANGED <<args, progress, iter_len, scores, pass_cap, epoch_idx, valid_losses, step_i, log_output,
                   num_updates, trainer, ckpt, save_best, arrived>>

\* train, lines 379-381: checkpoint_utils.save_checkpoint.
SaveCheckpoint(w) ==
    /\ pc[w] = "save_checkpoint"
    /\ save_best' = [save_best EXCEPT ![w] = running_best(@, valid_loss[w])]
    /\ ckpt' = save_checkpoint(ckpt, w, epoch_idx[w], trainer[w], save_best'[w])
    /\ hist' = [hist EXCEPT ![w].saves = @ + 1]
    /\ pc' = [pc EXCEPT ![w] = "barrier"]
    /\ UNCHANGED <<args, progress, iter_len, scores, pass_cap, epoch_idx, valid_losses, step_i, log_output,
                   num_updates, valid_loss, trainer, best, metrics, arrived>>

\* train, lines 382-383: the barrier is entered when the process group is
\* initialized.
Barrier(w) ==
    /\ pc[w] = "barrier"
    /\ arrived' = [arrived EXCEPT ![w] = IF is_initialized THEN @ + 1 ELSE @]
    /\ pc' = [pc EXCEPT ![w] = IF is_initialized THEN "in_barrier" ELSE "for"]
    /\ UNCHANGED <<args, progress, iter_len, scores, pass_cap, epoch_idx, valid_losses, step_i, log_output,
                   num_updates, valid_loss, trainer, best, metrics, ckpt,
                   save_best, hist>>

\* torch.distributed.barrier() returns once every worker has entered the
\* barrier as many times as this one.
BarrierReturn(w) ==
    /\ pc[w] = "in_barrier"
    /\ \A v \in Ranks : arrived[v] >= arrived[w]
    /\ hist' = [hist EXCEPT ![w].barrier_since_validate = TRUE]
    /\ pc' = [pc EXCEPT ![w] = "for"]
    /\ UNCHANGED <<args, progress, iter_len, scores, pass_cap, epoch_idx, valid_losses, step_i, log_output,
                   num_updates, valid_loss, trainer, best, metrics, ckpt,
                   save_best, arrived>>

\* train, lines 385-392: the end-of-epoch stats are printed, "train" is
\* reset and valid_loss is returned to main (line 318); reading a
\* valid_loss no step has bound raises UnboundLocalError.
EpochEnd(w) ==
    /\ pc[w] = "epoch_end"
    /\ hist' = [hist EXCEPT ![w] = progress_emit(
                    [@ EXCEPT !.train_print = metrics[w].train], progress[w])]
    /\ metrics' = [metrics EXCEPT ![w] =
                      aggregate_exit(reset_meters(@, "train"), @.active \ {"train"})]
    /\ valid_losses' = [valid_losses EXCEPT ![w] =
                          IF valid_loss[w] = Unbound THEN @ ELSE valid_loss[w]]
    /\ pc' = [pc EXCEPT ![w] =
                IF valid_loss[w] = Unbound THEN "crashed" ELSE "lr_step"]
    /\ UNCHANGED <<args, progress, iter_len, scores, pass_cap, epoch_idx, step_i, log_output, num_updates,
                   valid_loss, trainer, best, ckpt, save_best, arrived>>

\* main, line 320: trainer.lr_step(epoch_idx, valid_losses[0]); the loop
\* body ends here and leaves epoch_idx as it is.
LrStep(w) ==
    /\ pc[w] = "lr_step"
    /\ trainer' = [trainer EXCEPT ![w] = lr_step(@, epoch_idx[w], valid_losses[w])]
    /\ hist' = [hist EXCEPT ![w].lr_epochs = Append(@, epoch_idx[w]),
                            ![w].lr_values =
                                Append(@, valid_losses[w] = hist[w].last_valid)]
    /\ pc' = [pc EXCEPT ![w] = "while"]
    /\ UNCHANGED <<args, progress, iter_len, scores, pass_cap, epoch_idx, valid_losses, step_i, log_output,
                   num_updates, valid_loss, best, metrics, ckpt, save_best,
                   arrived>>

----------------------------------------------------------------------------
(* A restarted process (modelled from the specification: the code that     *)
(* loads a checkpoint is not in train.py).                                 *)

\* checkpoint_utils.load_checkpoint(path): the trainer's counters of the snapshot.
load_checkpoint(t, c) == [t EXCEPT !.num_updates = c.num_updates, !.epoch = c.epoch]

\* The process ends right after a save_checkpoint call that wrote the
\* epoch's snapshot, and a new process is started that loads that path:
\* the trainer's counters and checkpoint_utils' best score come from the
\* snapshot, everything else is as at any process start.
Restart(w) ==
    /\ pc[w] = "barrier"
    /\ hist[w].restarts = 0
    /\ epoch_idx[w] \in DOMAIN ckpt
    /\ ckpt[epoch_idx[w]].epoch # 0
    /\ ckpt[epoch_idx[w]].num_updates = trainer[w].num_updates
    /\ LET c == ckpt[epoch_idx[w]] IN
        /\ trainer' = [trainer EXCEPT ![w] =
              load_checkpoint([num_updates |-> 0, epoch |-> 0,
                               lr_epoch |-> 0, lr_loss |-> Unbound], c)]
        /\ save_best' = [save_best EXCEPT ![w] = c.best_score]
        /\ hist' = [hist EXCEPT ![w] =
              [InitHist EXCEPT !.restarts = 1, !.loaded = c,
                               !.ok_steps = hist[w].ok_steps]]
    /\ pc' = [pc EXCEPT ![w] = "verify"]
    /\ epoch_idx' = [epoch_idx EXCEPT ![w] = 0]
    /\ valid_losses' = [valid_losses EXCEPT ![w] = Unbound]
    /\ step_i' = [step_i EXCEPT ![w] = 0]
    /\ log_output' = [log_output EXCEPT ![w] = None]
    /\ num_updates' = [num_updates EXCEPT ![w] = 0]
    /\ valid_loss' = [valid_loss EXCEPT ![w] = Unbound]
    /\ best' = [best EXCEPT ![w] = NoAttr]
    /\ metrics' = [metrics EXCEPT ![w] = NoMetrics]
    /\ progress' = [progress EXCEPT ![w] = NoProgress]
    /\ UNCHANGED <<args, iter_len, scores, pass_cap, ckpt, arrived>>

----------------------------------------------------------------------------
(* A run of one worker: call_main invokes main directly.                   *)

Args(E, S, L, N) ==
    [max_epoch |-> E, save_interval |-> S, log_interval |-> L, world_size |-> N,
     wandb_project |-> None, wandb_entity |-> None]

Init ==
    \E E \in 0..MaxEpoch, S \in 1..MaxSaveInterval, L \in 1..MaxLogInterval,
       n \in 0..MaxBatches :
        InitWith(Args(E, S, L, 1), n, Auroc, MaxPasses)

Next ==
    \/ \E w \in Ranks : VerifyCheckpointDirectory(w)
    \/ \E w \in Ranks : Breakpoint(w)
    \/ \E w \in Ranks : LoopTest(w)
    \/ \E w \in Ranks : TrainBegin(w)
    \/ \E w \in Ranks : ForNext(w)
    \/ \E w \in Ranks : TrainStep(w)
    \/ \E w \in Ranks : LogInner(w)
    \/ \E w \in Ranks : Validate(w)
    \/ \E w \in Ranks : SaveCheckpoint(w)
    \/ \E w \in Ranks : Barrier(w)
    \/ \E w \in Ranks : EpochEnd(w)
    \/ \E w \in Ranks : LrStep(w)

Spec == Init /\ [][Next]_vars

(* A run of one worker whose process is restarted once from a checkpoint.  *)

InitRestart ==
    \E E \in 1..MaxEpoch, n \in 1..MaxBatches : InitWith(Args(E, 1, 1, 1), n, Auroc, MaxPasses)

NextRestart ==
    \/ Next
    \/ \E w \in Ranks : Restart(w)

SpecRestart == InitRestart /\ [][NextRestart]_vars

(* A run of several workers: call_main starts one process per rank.        *)

InitDist ==
    \E N \in 2..MaxWorkers, n \in 1..MaxBatches,
       project \in {None, "project"}, entity \in {None, "entity"} :
        InitWith([Args(1, 1, 1, N) EXCEPT !.wandb_project = project,
                                          !.wandb_entity = entity],
                 n, {1}, MaxDistPasses)

NextDist ==
    \/ Next
    \/ \E w \in Ranks : BarrierReturn(w)

SpecDist == InitDist /\ [][NextDist]_vars

----------------------------------------------------------------------------
(* The claims.                                                             *)

HasDuplicate(s) == \E j, k \in 1..Len(s) : j # k /\ s[j] = s[k]

RECURSIVE SetMax(_)
SetMax(S) ==
    IF S = {} THEN 0
    ELSE LET x == CHOOSE y \in S : TRUE
             m == SetMax(S \ {x})
         IN IF x > m THEN x ELSE m

\* The epoch tags under which the checkpoint directory holds a snapshot.
SavedEpochs == {e \in DOMAIN ckpt : ckpt[e].epoch # 0}

\* C1: a run with max_epoch = E >= 1 passes the epochs 1, 2, ..., E to
\* train() in that order, each once, and has trained all E of them when it
\* reaches the "done training" point.
C1_EpochsInOrderOnce ==
    \A w \in Ranks :
        /\ \A j \in 1..Len(hist[w].epochs_trained) : hist[w].epochs_trained[j] = j
        /\ ~HasDuplicate(hist[w].epochs_trained)
        /\ pc[w] = "done" => Len(hist[w].epochs_trained) = args.max_epoch

\* C2: lr_step is called once for an epoch, never twice for the same epoch
\* index, and each call carries the score of the latest validation of that
\* epoch.
C2_LrStepOncePerEpoch ==
    \A w \in Ranks :
        /\ ~HasDuplicate(hist[w].lr_epochs)
        /\ \A j \in 1..Len(hist[w].lr_values) : hist[w].lr_values[j]

\* C3: one call of train() calls validate() once, after its last training
\* step, and save_checkpoint at most once.
C3_ValidateOncePerTrainCall ==
    \A w \in Ranks :
        /\ hist[w].validates <= 1
        /\ hist[w].saves <= 1
        /\ ~hist[w].step_after_validate

\* C4: with max_epoch = 3 and save_interval = 2, once main has gone through
\* its three epochs the checkpoint directory holds the snapshot of epoch 2
\* and none of epoch 1 or 3.
C4_CheckpointsAtEndOfRun ==
    \A w \in Ranks :
        (/\ args.max_epoch = 3
         /\ args.save_interval = 2
         /\ Len(hist[w].lr_epochs) >= args.max_epoch)
        => SavedEpochs = {e \in 1..args.max_epoch : e % args.save_interval = 0}

\* The places of train() between two steps, where its local num_updates is
\* up to date.
BetweenSteps ==
    {"for", "train_step", "validate", "save_checkpoint", "barrier",
     "in_barrier", "epoch_end"}

\* C5: num_updates counts each train_step that did not skip once, over all
\* epochs so far: the trainer's counter equals that count, validate() and
\* the epoch boundary leave it alone, and the value train() reads after a
\* step that did not skip is that count too (one more than before the step).
C5_NumUpdatesCountsSteps ==
    \A w \in Ranks :
        /\ trainer[w].num_updates = hist[w].ok_steps
        /\ pc[w] \in BetweenSteps => num_updates[w] = hist[w].ok_steps
        /\ pc[w] = "after_step" =>
              num_updates[w] = hist[w].ok_steps
                                 - (IF log_output[w] = LogOutput THEN 1 ELSE 0)

\* C5's case: a second epoch pass, three updates in all, validations run.
C5_Witness ==
    \E w \in Ranks :
        /\ hist[w].passes >= 2
        /\ hist[w].ok_steps = 3
        /\ hist[w].validates >= 1
        /\ pc[w] = "epoch_end"
        /\ num_updates[w] = 3

\* C6: a train_step that returns the skip sentinel changes neither
\* num_updates nor the meters, and train() handles it by going on to the
\* next batch: no "train_inner" record, no validate, no save_checkpoint, no
\* exception.
C6_SkippedStepIsNoStep ==
    [][\A w \in Ranks :
        /\ (pc[w] = "train_step" /\ pc'[w] # "train_step" /\ log_output'[w] = None)
            => /\ trainer'[w].num_updates = trainer[w].num_updates
               /\ metrics'[w] = metrics[w]
        /\ (pc[w] = "after_step" /\ pc'[w] # "after_step" /\ log_output[w] = None)
            => /\ pc'[w] = "for"
               /\ num_updates'[w] = num_updates[w]
               /\ trainer'[w] = trainer[w]
               /\ metrics'[w] = metrics[w]
               /\ hist'[w] = hist[w]
               /\ valid_loss'[w] = valid_loss[w]
               /\ ckpt' = ckpt]_vars

\* C6's case: the first batch was skipped and train() is at the second.
C6_Witness ==
    \E w \in Ranks :
        /\ pc[w] = "train_step"
        /\ step_i[w] = 2
        /\ log_output[w] = None
        /\ hist[w].ok_steps = 0
        /\ hist[w].validates = 0
        /\ hist[w].inner_logs = <<>>

\* C7: after the k-th get_valid_stats call of a process, best_auroc is the
\* maximum of the k AUROC values given so far, so it is at least the AUROC
\* just reported.
C7_BestIsRunningMax ==
    \A w \in Ranks :
        /\ best[w] = NoAttr <=> hist[w].seen = {}
        /\ best[w] # NoAttr => best[w] = SetMax(hist[w].seen)
        /\ (best[w] # NoAttr /\ valid_loss[w] # Unbound) => best[w] >= valid_loss[w]

\* C7's case: a lower AUROC reported after a higher one, the best kept.
C7_Witness ==
    \E w \in Ranks :
        /\ hist[w].seen = {0, 1}
        /\ valid_loss[w] = 0
        /\ best[w] = 1

\* C8: a process restarted from a checkpoint has the snapshot's num_updates
\* and epoch, and get_valid_stats compares the next AUROC against the
\* snapshot's best score, not against 0.
C8_BestScoreSurvivesReload ==
    \A w \in Ranks :
        hist[w].restarts > 0 =>
            /\ trainer[w].num_updates >= hist[w].loaded.num_updates
            /\ prev_best(best[w]) >= hist[w].loaded.best_score

\* C9: a worker that has just called save_checkpoint has passed a barrier
\* since the validation whose score it saves.
C9_BarrierBeforeSave ==
    \A w \in Ranks :
        pc[w] = "barrier" => hist[w].barrier_since_validate

\* Worker w has started training that follows the step worker v is at: a
\* later epoch pass, or a later batch of the same pass.
TrainsPast(w, v) ==
    \/ hist[w].passes > hist[v].passes
    \/ /\ hist[w].passes = hist[v].passes
       /\ step_i[w] > step_i[v]
       /\ pc[w] # "train_step"

\* C10: while a worker is inside the save_checkpoint call of a step, no
\* worker has started the train_step of a later batch or begun a later
\* epoch.
C10_BarrierSeparatesSaveFromTraining ==
    \A v \in Ranks : \A w \in Ranks :
        pc[v] = "save_checkpoint" => ~TrainsPast(w, v)

\* C11: with batch sources of equal length, the workers enter the barrier
\* of train() the same number of times in an epoch: no worker reaches the
\* end of the epoch's batches while another waits in a barrier it has not
\* entered.
C11_BarrierCountsAgree ==
    \A v \in Ranks : \A w \in Ranks :
        (/\ pc[w] = "in_barrier"
         /\ pc[v] = "epoch_end"
         /\ hist[v].passes = hist[w].passes)
        => arrived[v] >= arrived[w]

\* C12: verify_checkpoint_directory runs once, on the master, and a worker
\* of any rank has begun its first train() call only after the master's
\* verification has succeeded.
C12_VerifiedBeforeTraining ==
    /\ \A w \in Ranks : hist[w].verified = (IF is_master(w) THEN 1 ELSE 0)
                        \/ pc[w] = "verify"
    /\ \A w \in Ranks :
        hist[w].passes >= 1 =>
            \A m \in Ranks : is_master(m) =>
                (hist[m].verified = 1 /\ pc[m] # "failed")

\* C16: train() returns a validation result in every epoch it is called
\* for, so it never ends in the UnboundLocalError of a valid_loss no
\* validation has bound, and main has a value for lr_step.
C16_TrainAlwaysReturns ==
    \A w \in Ranks :
        /\ pc[w] # "crashed"
        /\ pc[w] = "lr_step" => valid_losses[w] = hist[w].last_valid

\* The places of a process inside train()'s body.
InTrain == BetweenSteps \cup {"after_step"}

\* C13: the "train" context holds exactly the steps of the current train()
\* call that did not skip, whatever was logged and reset in "train_inner"
\* meanwhile; that count is what the end of the epoch prints, and "train"
\* is empty again afterwards.
C13_TrainStatsAreTheEpochs ==
    \A w \in Ranks :
        /\ pc[w] \in InTrain => metrics[w].train = hist[w].pass_ok
        /\ pc[w] \in {"lr_step", "crashed"} =>
              /\ hist[w].train_print = hist[w].pass_ok
              /\ metrics[w].train = 0

\* C13's case: the second epoch has ended, its two steps were printed, and
\* "train_inner" was logged and reset in both epochs.
C13_Witness ==
    \E w \in Ranks :
        /\ pc[w] = "lr_step"
        /\ hist[w].passes = 2
        /\ hist[w].ok_steps = 4
        /\ hist[w].train_print = 2
        /\ Len(hist[w].inner_logs) >= 3

\* C14: a validate() call changes neither "train" nor "train_inner" and
\* leaves the active contexts as they were, its valid_step values going to
\* its own root; a step that does not skip after a validation is
\* accumulated in "train" again.
C14_ValidateHasItsOwnRoot ==
    [][\A w \in Ranks :
        /\ (pc[w] = "validate" /\ pc'[w] = "save_checkpoint")
            => /\ metrics'[w].train = metrics[w].train
               /\ metrics'[w].train_inner = metrics[w].train_inner
               /\ metrics'[w].active = metrics[w].active
               /\ metrics'[w].valid = ValidBatches
        /\ (/\ pc[w] = "train_step"
            /\ pc'[w] = "after_step"
            /\ log_output'[w] = LogOutput
            /\ hist[w].validates > 0)
            => /\ metrics'[w].train = metrics[w].train + 1
               /\ metrics'[w].valid = metrics[w].valid]_vars

\* C14's case: a step logged after a validation of the same train() call.
C14_Witness ==
    \E w \in Ranks :
        /\ pc[w] = "after_step"
        /\ log_output[w] = LogOutput
        /\ hist[w].validates = 1
        /\ hist[w].step_after_validate
        /\ metrics[w].train = 2
        /\ metrics[w].valid = ValidBatches

\* A step that did not skip and whose record, if due, is yet to be emitted.
PendingStep(w) ==
    IF pc[w] = "after_step" /\ log_output[w] = LogOutput THEN 1 ELSE 0

\* C15: the j-th "train_inner" record is emitted at num_updates =
\* j * log_interval and aggregates the log_interval steps since the record
\* before it; there is one record for every multiple of log_interval that
\* num_updates has reached, and none besides.
C15_InnerRecordsAtInterval ==
    \A w \in Ranks :
        /\ \A j \in 1..Len(hist[w].inner_logs) :
              /\ hist[w].inner_logs[j].step = j * args.log_interval
              /\ hist[w].inner_logs[j].n = args.log_interval
        /\ Len(hist[w].inner_logs) =
              (hist[w].ok_steps - PendingStep(w)) \div args.log_interval

\* C15's case: with log_interval = 2, a skipped step has followed the
\* step that was logged, and there is still one record.
C15_Witness ==
    \E w \in Ranks :
        /\ args.log_interval = 2
        /\ hist[w].ok_steps = 2
        /\ pc[w] = "for"
        /\ log_output[w] = None
        /\ step_i[w] >= 1
        /\ Len(hist[w].inner_logs) = 1

\* The records a process has handed to its reporters: every "train_inner"
\* record, every validation of the current train() call and, once train()
\* has printed, the end-of-epoch summary.
RecordsDue(w) ==
    Len(hist[w].inner_logs) + hist[w].validates
        + (IF pc[w] \in {"lr_step", "crashed"} THEN 1 ELSE 0)

\* C17: every reporter a worker other than rank 0 creates, in train() and
\* in validate(), has neither dashboard project nor entity, and that
\* worker sends no record to the dashboard; rank 0's reporters carry the
\* command line's settings and send each of its records once when a
\* project is set; every worker writes its records to the console.
C17_DashboardOnMasterOnly ==
    \A w \in Ranks :
        /\ ~is_master(w) =>
              /\ \A p \in hist[w].reporters :
                    p.wandb_project = None /\ p.wandb_entity = None
              /\ hist[w].dashboard = 0
        /\ is_master(w) =>
              /\ \A p \in hist[w].reporters :
                    /\ p.wandb_project = args.wandb_project
                    /\ p.wandb_entity = args.wandb_entity
              /\ hist[w].dashboard =
                    IF args.wandb_project # None THEN hist[w].console ELSE 0
        /\ hist[w].console >= RecordsDue(w)

\* C17's case: a run of several workers with a project and an entity set,
\* in which a worker other than rank 0 has created both of its reporters
\* and written records to its console, and rank 0 has sent records to the
\* dashboard.
C17_Witness ==
    /\ args.world_size > 1
    /\ args.wandb_project # None
    /\ args.wandb_entity # None
    /\ hist[0].dashboard >= 2
    /\ \E w \in Ranks :
        /\ ~is_master(w)
        /\ hist[w].validates >= 1
        /\ pc[w] = "lr_step"
        /\ hist[w].reporters # {}
        /\ hist[w].console >= 3

====
